---- MODULE Spec2Model ----
(***************************************************************************)
(* Model of the /chat handler of src/app.py (the "tripbot" service).       *)
(*                                                                         *)
(* One request is one run of the coroutine chat(): it runs without         *)
(* interruption from one await to the next (asyncio, one event loop), so   *)
(* the handler is three steps: lines 70-152 (up to the Selector call),     *)
(* lines 153-193 (up to the Formatter call) and lines 194-202.             *)
(*                                                                         *)
(* Strings the code builds or inspects are sequences of string fragments:  *)
(* concatenation is \o, a line break is the fragment NL.  JSON values are  *)
(* records tagged with their JSON type; a JSON object is a record whose    *)
(* DOMAIN is its key set, so that a missing key is a missing field.        *)
(***************************************************************************)
EXTENDS Integers, Sequences, FiniteSets, TLC

\* Number of requests the server receives in one run.
MaxReq == 2

Reqs == 1..MaxReq

----------------------------------------------------------------------------
\* JSON values

Num(n) == [t |-> "num", n |-> n]
Str(s) == [t |-> "str", s |-> s]
JObject(o) == [t |-> "object", o |-> o]
JArray == [t |-> "array"]

\* Python's None, and the empty dict {} of the responses.
None == [t |-> "None"]
EmptyDict == <<>>

\* dict.get(key, default)
Get(d, key, default) == IF key \in DOMAIN d THEN d[key] ELSE default

----------------------------------------------------------------------------
\* Text fragments

NL == "\n"
SP == " "
\* The triple backquote of a code fence; the backquote is no character of a
\* TLA+ string, so the fragment is written with apostrophes.
FENCE == "'''"
TAG == "json"
PROSE == "Which city are you leaving from?"
J_GOOD == "{\"flight_id\": \"F1\", \"hotel_id\": \"H1\"}"
J_DANGLING == "{\"flight_id\": \"F9\", \"hotel_id\": \"H1\"}"
J_LACK == "{\"flight_id\": \"F1\"}"
J_MISTYPED == "{\"flight_id\": 7, \"hotel_id\": \"H1\"}"
J_EXTRA == "{\"flight_id\": \"F1\", \"hotel_id\": \"H1\", \"why\": \"cheapest\"}"
J_ARRAY == "[\"F1\", \"H1\"]"
J_OPEN == "{\"flight_id\": \"F1\","
J_CLOSE == "\"hotel_id\": \"H1\"}"

Whitespace == {NL, SP}

\* What json.loads makes of each fragment that is a complete JSON document.
JsonDocs ==
    (J_GOOD :> JObject([flight_id |-> Str("F1"), hotel_id |-> Str("H1")]))
    @@ (J_DANGLING :> JObject([flight_id |-> Str("F9"), hotel_id |-> Str("H1")]))
    @@ (J_LACK :> JObject([flight_id |-> Str("F1")]))
    @@ (J_MISTYPED :> JObject([flight_id |-> Num(7), hotel_id |-> Str("H1")]))
    @@ (J_EXTRA :> JObject([flight_id |-> Str("F1"), hotel_id |-> Str("H1"),
                            why |-> Str("cheapest")]))
    @@ (J_ARRAY :> JArray)

----------------------------------------------------------------------------
\* str methods used by the handler, on fragment sequences

RECURSIVE LStrip(_)
LStrip(text) ==
    IF text # <<>> /\ Head(text) \in Whitespace THEN LStrip(Tail(text)) ELSE text

RECURSIVE RStrip(_)
RStrip(text) ==
    IF text # <<>> /\ text[Len(text)] \in Whitespace
    THEN RStrip(SubSeq(text, 1, Len(text) - 1))
    ELSE text

\* str.strip()
Strip(text) == RStrip(LStrip(text))

\* str.startswith(prefix), for a prefix that is one fragment
StartsWith(text, prefix) == text # <<>> /\ Head(text) = prefix

\* str.splitlines(): the lines between the line breaks; a trailing line break
\* opens no further line, and the empty string has no lines.
RECURSIVE SplitLinesFrom(_, _)
SplitLinesFrom(text, line) ==
    IF text = <<>> THEN (IF line = <<>> THEN <<>> ELSE <<line>>)
    ELSE IF Head(text) = NL THEN <<line>> \o SplitLinesFrom(Tail(text), <<>>)
    ELSE SplitLinesFrom(Tail(text), Append(line, Head(text)))

SplitLines(text) == SplitLinesFrom(text, <<>>)

\* sep.join(parts)
RECURSIVE Join(_, _)
Join(sep, parts) ==
    IF parts = <<>> THEN <<>>
    ELSE IF Len(parts) = 1 THEN parts[1]
    ELSE parts[1] \o <<sep>> \o Join(sep, Tail(parts))

\* json.loads(text): a result, or the failure value for the exception it raises.
\* Whitespace around the document is insignificant; a document is one fragment
\* of JsonDocs or the two-line object J_OPEN, J_CLOSE.
Raised == [t |-> "raised"]

JsonLoads(text) ==
    LET body == SelectSeq(text, LAMBDA f : f \notin Whitespace) IN
    IF Len(body) = 1 /\ body[1] \in DOMAIN JsonDocs THEN JsonDocs[body[1]]
    ELSE IF body = <<J_OPEN, J_CLOSE>> THEN JsonDocs[J_GOOD]
    ELSE Raised

----------------------------------------------------------------------------
\* Pydantic models (pydantic 2: str fields take only strings; float and int
\* fields take numbers).  A constructor call is its value, or Raised for the
\* ValidationError / TypeError it raises.

IsStr(v) == v.t = "str"
IsNum(v) == v.t = "num"

\* class Flight.  The optional departure_date / arrival_date default to None;
\* no payload of the model carries them.
FlightFailsOn(f) ==
    \/ {"id", "departure", "arrival", "price"} \ DOMAIN f # {}
    \/ ~IsStr(f.id) \/ ~IsStr(f.departure) \/ ~IsStr(f.arrival)
    \/ ~IsNum(f.price)

Flight(f) ==
    IF FlightFailsOn(f) THEN Raised
    ELSE [id |-> f.id.s, departure |-> f.departure.s, arrival |-> f.arrival.s,
          price |-> f.price.n]

\* class Hotel
HotelFailsOn(h) ==
    \/ {"id", "name", "price_per_night"} \ DOMAIN h # {}
    \/ ~IsStr(h.id) \/ ~IsStr(h.name)
    \/ ~IsNum(h.price_per_night)

Hotel(h) ==
    IF HotelFailsOn(h) THEN Raised
    ELSE [id |-> h.id.s, name |-> h.name.s, price_per_night |-> h.price_per_night.n]

\* class Selection, called as Selection(**doc): extra keys are ignored.
SelectionFailsOn(doc) ==
    \/ doc.t # "object"
    \/ {"flight_id", "hotel_id"} \ DOMAIN doc.o # {}
    \/ ~IsStr(doc.o.flight_id) \/ ~IsStr(doc.o.hotel_id)

Selection(doc) ==
    IF SelectionFailsOn(doc) THEN Raised
    ELSE [t |-> "Selection", flight_id |-> doc.o.flight_id.s,
          hotel_id |-> doc.o.hotel_id.s]

\* isinstance(v, Selection) / isinstance(v, Itinerary)
IsSelection(v) == v.t = "Selection"
IsItinerary(v) == v.t = "Itinerary"

\* str(v) of a model instance: its field repr.
ReprSelection(sel) ==
    <<"flight_id='", sel.flight_id, "' hotel_id='", sel.hotel_id, "'">>

ReprItinerary(it) ==
    <<"flight=Flight(", it.flight.id, ") hotel=Hotel(", it.hotel.id,
      ") total_cost=", ToString(it.total_cost),
      " points_used=", ToString(it.points_used), " notes='", it.notes, "'">>

\* Itinerary.dict()
ItineraryDict(it) ==
    [flight |-> it.flight, hotel |-> it.hotel, total_cost |-> it.total_cost,
     points_used |-> it.points_used, notes |-> it.notes]

----------------------------------------------------------------------------
\* parse_selection (lines 160-170)

\* KeepLine that drops a line only when it is the three backquotes and
\* nothing else, so that a fence line carrying a language tag is kept.
KeepLineBareFence(ln) ==
    /\ Strip(ln) # <<FENCE>>
    /\ ~StartsWith(Strip(ln), TAG)

KeepLine(ln) ==
    /\ ~StartsWith(Strip(ln), FENCE)
    /\ ~StartsWith(Strip(ln), TAG)

StripFences(clean) ==
    IF StartsWith(clean, FENCE)
    THEN Join(NL, SelectSeq(SplitLines(clean), KeepLine))
    ELSE clean

\* parse_selection without its try/except: the exception leaves the function.
parse_selection_uncaught(text) ==
    LET clean == StripFences(Strip(text))
        doc == JsonLoads(clean)
    IN IF doc = Raised THEN Raised ELSE Selection(doc)

parse_selection(text) ==
    LET clean == StripFences(Strip(text))
        doc == JsonLoads(clean)
        sel == IF doc = Raised THEN Raised ELSE Selection(doc)
    IN IF sel = Raised THEN None ELSE sel

\* Lines 172-179: the typed output if the collaborator gave one, else the text.
StrOf(v) ==
    IF v.t = "text" THEN v.text
    ELSE IF IsSelection(v) THEN ReprSelection(v)
    ELSE ReprItinerary(v)

ReconcileSelection(final_output) ==
    LET tmp == final_output
        selection == IF IsSelection(tmp) THEN tmp ELSE None
    IN IF selection = None THEN parse_selection(StrOf(final_output)) ELSE selection

----------------------------------------------------------------------------
\* Request bodies (the JSON object request.json() returns)

Absent == [t |-> "absent"]
Field(key, v) == IF v = Absent THEN <<>> ELSE (key :> v)

F1raw == [id |-> Str("F1"), departure |-> Str("NYC"), arrival |-> Str("LAX"),
          price |-> Num(200)]
F2NoPrice == [id |-> Str("F2"), departure |-> Str("NYC"), arrival |-> Str("SFO")]
H1raw == [id |-> Str("H1"), name |-> Str("Bayview"), price_per_night |-> Num(100)]

UserIdOpts == {Absent, Str("u1")}
MessageOpts == {Str("plan my trip")}
FlightsOpts == {<<>>, <<F1raw>>}
HotelsOpts == {<<>>, <<H1raw>>}
PointsOpts == {Absent, Num(5000)}

Body(u, m, f, h, p) ==
    Field("user_id", u) @@ Field("message", m) @@ ("flights" :> f)
    @@ ("hotels" :> h) @@ Field("user_points", p)

\* The bodies a request may carry: every combination of a present or missing
\* flights list, hotels list and points value; the full catalog with the points
\* explicitly 0; and a flights list with an entry that lacks its price, with
\* and without the hotels.
Bodies ==
    {Body(u, m, f, h, p) : u \in UserIdOpts, m \in MessageOpts, f \in FlightsOpts,
                           h \in HotelsOpts, p \in PointsOpts}
    \cup {Body(u, m, <<F1raw>>, <<H1raw>>, Num(0)) :
            u \in UserIdOpts, m \in MessageOpts}
    \cup {Body(u, m, <<F1raw, F2NoPrice>>, h, Num(5000)) :
            u \in UserIdOpts, m \in MessageOpts, h \in HotelsOpts}

----------------------------------------------------------------------------
\* What the model collaborator may hand back (Runner.run(...).final_output):
\* a typed value or a text.

Text(frags) == [t |-> "text", text |-> frags]

SelectorOutputs ==
    {[t |-> "Selection", flight_id |-> "F1", hotel_id |-> "H1"],
     Text(<<J_DANGLING>>),
     Text(<<FENCE, TAG, NL, J_GOOD, NL, FENCE>>),
     Text(<<J_LACK>>),
     Text(<<J_MISTYPED>>),
     Text(<<PROSE>>)}

\* Selector replies for parse_selection: every text of at most MaxBodyFrags
\* fragments that json.loads accepts, bare and between two fence lines.  The
\* opening fence line may be indented and may carry the language tag; the
\* closing one may be indented or followed by a blank.
MaxBodyFrags == 3

Frags ==
    {NL, SP, FENCE, TAG, PROSE, J_GOOD, J_DANGLING, J_LACK, J_MISTYPED, J_EXTRA,
     J_ARRAY, J_OPEN, J_CLOSE}

JsonBodies ==
    {b \in UNION {[1..n -> Frags] : n \in 1..MaxBodyFrags} :
        JsonLoads(b) # Raised}

FenceTops == {<<FENCE>>, <<FENCE, TAG>>, <<SP, FENCE, TAG>>}
FenceBottoms == {<<FENCE>>, <<SP, FENCE>>, <<FENCE, SP>>}

Fenced(top, body, bottom) == top \o <<NL>> \o body \o <<NL>> \o bottom

FencedTexts ==
    {Fenced(top, body, bottom) :
        top \in FenceTops, body \in JsonBodies, bottom \in FenceBottoms}

ProposedItinerary(total, used) ==
    [t |-> "Itinerary", flight |-> Flight(F1raw), hotel |-> Hotel(H1raw),
     total_cost |-> total, points_used |-> used, notes |-> "3 nights"]

FormatterOutputs ==
    {ProposedItinerary(500, 5000),
     ProposedItinerary(450, 45000),
     Text(<<"Here is your trip: flight F1 and hotel H1.">>)}

----------------------------------------------------------------------------
\* State

VARIABLES
    sessions,   \* the module-level dict sessions (line 66): uid -> session dict
    heap,       \* the history lists, by address: a session dict and the local
                \* variable history of a request hold the address of a list
    pc,         \* where each request's coroutine stands
    data,       \* each request's body
    frame,      \* each request's local variables that live across an await,
                \* as far as they are assigned
    response,   \* each request's JSONResponse, None before it returns
    exc,        \* the exception a request's coroutine ended with, "" if none
    calls       \* the agents each request has handed to Runner.run, in order

vars == <<sessions, heap, pc, data, frame, response, exc, calls>>

Init ==
    /\ sessions = <<>>
    /\ heap = <<>>
    /\ pc = [r \in Reqs |-> "idle"]
    /\ data = [r \in Reqs |-> EmptyDict]
    /\ frame = [r \in Reqs |-> EmptyDict]
    /\ response = [r \in Reqs |-> None]
    /\ exc = [r \in Reqs |-> ""]
    /\ calls = [r \in Reqs |-> <<>>]

JSONResponse(message, itinerary) == [message |-> message, itinerary |-> itinerary]

\* Missing with the hotels check left out.
MissingWithoutHotels(flights_raw, hotels_raw, points) ==
    (IF flights_raw = <<>> THEN << <<"flights list">> >> ELSE <<>>)
    \o (IF points = Num(0) THEN << <<"user_points">> >> ELSE <<>>)

\* Lines 79-86: the list missing
Missing(flights_raw, hotels_raw, points) ==
    (IF flights_raw = <<>> THEN << <<"flights list">> >> ELSE <<>>)
    \o (IF hotels_raw = <<>> THEN << <<"hotels list">> >> ELSE <<>>)
    \o (IF points = Num(0) THEN << <<"user_points">> >> ELSE <<>>)

\* Lines 89-93
AskMsg(missing) ==
    <<"I still need the following before I can build your itinerary: ">>
    \o Join(", ", missing)
    \o <<". Please provide them.">>

ClarifyMsg == <<"Could you clarify which flight or hotel you prefer?">>

\* NeedsSession without the membership test: a session dict per request.
NeedsSessionAlways(uid) == TRUE

\* Line 101
NeedsSession(uid) == uid \notin DOMAIN sessions

\* A session whose history is the list of the first session ever made (one
\* list object shared by every session dict).
NewSessionSharedHistory(n) ==
    [selector |-> [name |-> "Selector", obj |-> n],
     formatter |-> [name |-> "Formatter", obj |-> n],
     history |-> 1]

\* Lines 102-137: the session dict built for a new uid; its two agents and its
\* history list are new objects, n being their address.
NewSession(n) ==
    [selector |-> [name |-> "Selector", obj |-> n],
     formatter |-> [name |-> "Formatter", obj |-> n],
     history |-> n]

\* An entry of a history list: the string appended, with the request and the
\* side it came from (kept for the properties; the code stores the string).
Turn(text, r, role) == [text |-> text, req |-> r, role |-> role]

TagsOf(list) == [i \in 1..Len(list) |-> <<list[i].req, list[i].role>>]

\* Extend that skips a user message the list already holds.
ExtendDeduplicated(list, user_msg, selector_text, r) ==
    list
    \o (IF \E i \in 1..Len(list) : list[i].text = user_msg
        THEN <<>> ELSE <<Turn(user_msg, r, "user")>>)
    \o <<Turn(selector_text, r, "selector")>>

\* Extend that stores the user's message and drops the Selector's reply.
ExtendUserOnly(list, user_msg, selector_text, r) ==
    list \o <<Turn(user_msg, r, "user")>>

\* Extend that stores the reply and forgets the user's message.
ExtendReplyOnly(list, user_msg, selector_text, r) ==
    list \o <<Turn(selector_text, r, "selector")>>

\* Line 157: history.extend([user_msg, selector_text])
Extend(list, user_msg, selector_text, r) ==
    list \o <<Turn(user_msg, r, "user"), Turn(selector_text, r, "selector")>>

\* Lines 144-149: the Selector's prompt, the history entries joined with the
\* user's message and the two catalog lists.  The message and the lists are in
\* the body; the state keeps which history entries the prompt was joined from.
SelectorInput(history, user_msg, flights_raw, hotels_raw) ==
    [turns |-> TagsOf(history)]

\* Lines 73-77 and 97-98: the locals chat() assigns once from the body.  They
\* are functions of the body, so the state keeps the body and not a copy of
\* each of them.
uid_of(body) == Get(body, "user_id", Str("default")).s
user_msg_of(body) ==
    LET msg == Get(body, "message", Str("")).s IN IF msg = "" THEN <<>> ELSE <<msg>>
flights_raw_of(body) == Get(body, "flights", <<>>)
hotels_raw_of(body) == Get(body, "hotels", <<>>)
points_of(body) == Get(body, "user_points", Num(0))
flights_of(body) ==
    [i \in 1..Len(flights_raw_of(body)) |-> Flight(flights_raw_of(body)[i])]
hotels_of(body) ==
    [i \in 1..Len(hotels_raw_of(body)) |-> Hotel(hotels_raw_of(body)[i])]

----------------------------------------------------------------------------
\* The handler chat(), one action per stretch between two awaits

\* Session setup with the gate and the conversion ignored (setup placed at
\* the top of the handler).
ReachesSetupAlways(missing, invalid) == TRUE

\* The return at line 94 and the exception of lines 97-98 leave chat() before
\* line 100: the session setup is reached by a request that passed the gate
\* and whose catalog converted.
ReachesSetup(missing, invalid) == missing = <<>> /\ ~invalid

\* Lines 70-152: read the body, gate, convert the catalog, set the session up,
\* build the Selector's prompt and call the Selector.
Receive(r) ==
    /\ pc[r] = "idle"
    /\ \A q \in Reqs : q < r => pc[q] # "idle"
    /\ \E body \in Bodies :
        LET uid == uid_of(body)
            user_msg == user_msg_of(body)
            flights_raw == flights_raw_of(body)
            hotels_raw == hotels_raw_of(body)
            points == points_of(body)
            missing == Missing(flights_raw, hotels_raw, points)
            flights == flights_of(body)
            hotels == hotels_of(body)
            invalid == \/ \E i \in 1..Len(flights) : flights[i] = Raised
                       \/ \E i \in 1..Len(hotels) : hotels[i] = Raised
            sessions1 == IF NeedsSession(uid)
                         THEN (uid :> NewSession(Len(heap) + 1)) @@ sessions
                         ELSE sessions
            heap1 == IF NeedsSession(uid) THEN Append(heap, <<>>) ELSE heap
            sel_agent == sessions1[uid].selector
            fmt_agent == sessions1[uid].formatter
            history == sessions1[uid].history
            selector_input ==
                SelectorInput(heap1[history], user_msg, flights_raw, hotels_raw)
        IN
        /\ data' = [data EXCEPT ![r] = body]
        /\ sessions' = IF ReachesSetup(missing, invalid) THEN sessions1 ELSE sessions
        /\ heap' = IF ReachesSetup(missing, invalid) THEN heap1 ELSE heap
        /\ IF missing # <<>>
           THEN \* line 94
                /\ response' = [response EXCEPT
                                  ![r] = JSONResponse(AskMsg(missing), EmptyDict)]
                /\ pc' = [pc EXCEPT ![r] = "returned"]
                /\ UNCHANGED <<frame, exc, calls>>
           ELSE IF invalid
           THEN \* lines 97-98 raise, and nothing catches it
                /\ exc' = [exc EXCEPT ![r] = "ValidationError"]
                /\ pc' = [pc EXCEPT ![r] = "raised"]
                /\ UNCHANGED <<frame, response, calls>>
           ELSE \* lines 100-152
                /\ frame' = [frame EXCEPT ![r] =
                                [sel_agent |-> sel_agent, fmt_agent |-> fmt_agent,
                                 history |-> history,
                                 selector_input |-> selector_input]]
                /\ calls' = [calls EXCEPT ![r] = Append(@, sel_agent)]
                /\ pc' = [pc EXCEPT ![r] = "await_selector"]
                /\ UNCHANGED <<response, exc>>

\* Lines 153-193: the Selector's call returns; store the turn, reconcile the
\* output, and either ask the user to clarify or call the Formatter.
SelectorStep(r, final_output) ==
    LET f == frame[r]
        selector_text == StrOf(final_output)
        selection == ReconcileSelection(final_output)
    IN
    \* line 157: history.extend([user_msg, selector_text])
    /\ heap' = [heap EXCEPT ![f.history] =
                  Extend(@, user_msg_of(data[r]), selector_text, r)]
    /\ IF selection = None
       THEN \* line 183
            /\ response' = [response EXCEPT
                              ![r] = JSONResponse(ClarifyMsg, EmptyDict)]
            /\ pc' = [pc EXCEPT ![r] = "returned"]
            /\ frame' = [frame EXCEPT ![r] =
                            [selector_text |-> selector_text,
                             selection |-> selection] @@ f]
            /\ UNCHANGED calls
       ELSE \* lines 186-193; fmt_conv is built from the body and selection
            /\ frame' = [frame EXCEPT ![r] =
                            [selector_text |-> selector_text,
                             selection |-> selection] @@ f]
            /\ calls' = [calls EXCEPT ![r] = Append(@, f.fmt_agent)]
            /\ pc' = [pc EXCEPT ![r] = "await_formatter"]
            /\ UNCHANGED response
    /\ UNCHANGED <<sessions, data, exc>>

\* Line 152 resumes with one of the Selector outputs of the model.
SelectorReturns(r) ==
    /\ pc[r] = "await_selector"
    /\ \E final_output \in SelectorOutputs : SelectorStep(r, final_output)

\* Line 152 resumes with a text reply: a JSON body, bare or fenced.
SelectorReturnsText(r) ==
    /\ pc[r] = "await_selector"
    /\ \E text \in JsonBodies \cup FencedTexts : SelectorStep(r, Text(text))

\* Lines 194-202: the Formatter's call returns; answer with its text and, if
\* the output is a typed Itinerary, its dict.
FormatterReturns(r) ==
    /\ pc[r] = "await_formatter"
    /\ \E final_output \in FormatterOutputs :
        LET fmt_text == StrOf(final_output)
            itinerary == IF IsItinerary(final_output)
                         THEN ItineraryDict(final_output)
                         ELSE EmptyDict
        IN
        /\ response' = [response EXCEPT ![r] = JSONResponse(fmt_text, itinerary)]
        /\ pc' = [pc EXCEPT ![r] = "returned"]
    /\ UNCHANGED <<sessions, heap, data, frame, exc, calls>>

\* Lines 152 and 193: Runner.run raises (the collaborator failed); chat() has
\* no handler around either call.
RunnerRaises(r) ==
    /\ pc[r] \in {"await_selector", "await_formatter"}
    /\ exc' = [exc EXCEPT ![r] = "RunnerError"]
    /\ pc' = [pc EXCEPT ![r] = "raised"]
    /\ UNCHANGED <<sessions, heap, data, frame, response, calls>>

Next ==
    \E r \in Reqs :
        \/ Receive(r)
        \/ SelectorReturns(r)
        \/ FormatterReturns(r)
        \/ RunnerRaises(r)

Spec == Init /\ [][Next]_vars

\* One request, whose Selector replies with a JSON body, bare or fenced.
NextFenced ==
    \/ Receive(1)
    \/ SelectorReturnsText(1)
    \/ FormatterReturns(1)
    \/ RunnerRaises(1)

SpecFenced == Init /\ [][NextFenced]_vars

----------------------------------------------------------------------------
\* Vocabulary of the properties

Received(r) == pc[r] # "idle"
Returned(r) == pc[r] = "returned"

\* The request's inputs, read from its body as the claim words them.
FlightsIn(r) == Get(data[r], "flights", <<>>)
HotelsIn(r) == Get(data[r], "hotels", <<>>)
PointsSupplied(r) == "user_points" \in DOMAIN data[r]
Uid(r) == uid_of(data[r])

\* The three kinds of response body.
IsGateResponse(resp) ==
    /\ resp # None
    /\ resp.itinerary = EmptyDict
    /\ Head(resp.message)
         = "I still need the following before I can build your itinerary: "

IsClarifyResponse(resp) ==
    /\ resp # None
    /\ resp.itinerary = EmptyDict
    /\ resp.message = <<"Could you clarify which flight or hotel you prefer?">>

InvokedSelector(r) == \E i \in 1..Len(calls[r]) : calls[r][i].name = "Selector"
InvokedFormatter(r) == \E i \in 1..Len(calls[r]) : calls[r][i].name = "Formatter"

\* The Selector's call of request r has returned and line 157 has run.
Appended(r) == "selector_text" \in DOMAIN frame[r]

HistoryOf(u) == heap[sessions[u].history]

IsPrefix(s, t) == Len(s) <= Len(t) /\ SubSeq(t, 1, Len(s)) = s

----------------------------------------------------------------------------
\* C1: a request whose flights list is empty, whose hotels list is empty or
\* which supplies no points value gets the gate's short-circuit response (the
\* "I still need ..." message with an empty itinerary), and neither the
\* Selector nor the Formatter is invoked for it.
C1_GateShortCircuits ==
    \A r \in Reqs :
        (Received(r) /\ (FlightsIn(r) = <<>> \/ HotelsIn(r) = <<>> \/ ~PointsSupplied(r)))
        => /\ Returned(r)
           /\ IsGateResponse(response[r])
           /\ ~InvokedSelector(r)
           /\ ~InvokedFormatter(r)

\* A request with flights and points but no hotels has been answered.
C1_Witness ==
    \E r \in Reqs :
        /\ Returned(r)
        /\ FlightsIn(r) # <<>> /\ HotelsIn(r) = <<>>
        /\ PointsSupplied(r) /\ data[r].user_points = Num(5000)

----------------------------------------------------------------------------
\* C2: whatever the interleaving of the requests of one user id around the
\* Selector call, the session history holds, for every request whose Selector
\* call has returned, that request's user message once and its Selector reply
\* once, the reply right after the message, and holds nothing else.
C2_HistoryPairsIntact ==
    \A u \in DOMAIN sessions :
        LET list == HistoryOf(u)
            mine == {r \in Reqs : Appended(r) /\ Uid(r) = u}
        IN /\ Len(list) = 2 * Cardinality(mine)
           /\ \A r \in mine :
                \E i \in 1..(Len(list) - 1) :
                    /\ list[i] = Turn(user_msg_of(data[r]), r, "user")
                    /\ list[i + 1] = Turn(frame[r].selector_text, r, "selector")
                    /\ \A j \in 1..Len(list) : list[j].req = r => j \in {i, i + 1}

\* Two requests of one user id were both suspended at the Selector call (each
\* built its prompt from the empty history) and both have stored their turn.
C2_Witness ==
    \E r1, r2 \in Reqs :
        /\ r1 # r2
        /\ Appended(r1) /\ Appended(r2)
        /\ Uid(r1) = Uid(r2)
        /\ frame[r1].selector_input.turns = <<>>
        /\ frame[r2].selector_input.turns = <<>>

----------------------------------------------------------------------------
\* Vocabulary of the later properties

Range(seq) == {seq[i] : i \in 1..Len(seq)}

\* Position of request r's user message in the history of its user id.
TurnIndex(r) ==
    LET list == HistoryOf(Uid(r))
    IN CHOOSE i \in 1..Len(list) : list[i].req = r /\ list[i].role = "user"

CatalogFlightIds(r) == {FlightsIn(r)[i].id.s : i \in 1..Len(FlightsIn(r))}
CatalogHotelIds(r) == {HotelsIn(r)[i].id.s : i \in 1..Len(HotelsIn(r))}

\* The request's Selector output reconciled to a Selection.
HasSelection(r) == Appended(r) /\ frame[r].selection # None

Dangling(r) ==
    \/ frame[r].selection.flight_id \notin CatalogFlightIds(r)
    \/ frame[r].selection.hotel_id \notin CatalogHotelIds(r)

Min(a, b) == IF a <= b THEN a ELSE b

----------------------------------------------------------------------------
\* C3: access to a session is serialized per user id: of two requests of one
\* user id that have both stored their turn, the one whose turn comes second in
\* the history had the first one's user message and Selector reply in its
\* Selector prompt.
C3_SecondSawFirst ==
    \A r1, r2 \in Reqs :
        (/\ r1 # r2
         /\ Appended(r1) /\ Appended(r2)
         /\ Uid(r1) = Uid(r2)
         /\ TurnIndex(r1) < TurnIndex(r2))
        => {<<r1, "user">>, <<r1, "selector">>}
              \subseteq Range(frame[r2].selector_input.turns)

----------------------------------------------------------------------------
\* C4: a Selection whose flight_id or hotel_id names no entry of the request's
\* catalog ends the request with the clarification response; the Formatter is
\* not invoked and no itinerary is returned.
C4_DanglingSelectionClarifies ==
    \A r \in Reqs :
        (HasSelection(r) /\ Dangling(r))
        => /\ Returned(r)
           /\ IsClarifyResponse(response[r])
           /\ ~InvokedFormatter(r)

----------------------------------------------------------------------------
\* C5: the session of a user id is created once, with an empty history, and
\* every later request of that id works on that same session: a step never
\* replaces the session dict, its two agents or its history list, it only
\* appends to the list, and the list a request holds is the session's list.
C5_SessionCreatedOnce ==
    [][/\ \A u \in DOMAIN sessions :
            /\ u \in DOMAIN sessions'
            /\ sessions'[u] = sessions[u]
            /\ IsPrefix(heap[sessions[u].history], heap'[sessions'[u].history])
       /\ \A u \in DOMAIN sessions' \ DOMAIN sessions :
            heap'[sessions'[u].history] = <<>>
       /\ \A r \in Reqs :
            "history" \in DOMAIN frame'[r]
            => /\ frame'[r].history = sessions'[uid_of(data'[r])].history
               /\ frame'[r].sel_agent = sessions'[uid_of(data'[r])].selector
               /\ frame'[r].fmt_agent = sessions'[uid_of(data'[r])].formatter
               /\ IsPrefix(frame'[r].selector_input.turns,
                           TagsOf(heap'[frame'[r].history]))]_vars

\* A later request of a user id built its prompt from the turn an earlier
\* request of that id had stored.
C5_Witness ==
    \E r1, r2 \in Reqs :
        /\ r1 < r2
        /\ Appended(r1)
        /\ "selector_input" \in DOMAIN frame[r2]
        /\ Uid(r1) = Uid(r2)
        /\ frame[r2].selector_input.turns = <<<<r1, "user">>, <<r1, "selector">>>>

----------------------------------------------------------------------------
\* C6: a request with flights, hotels and user_points explicitly 0 is READY:
\* the gate does not name the points as missing and the Selector is invoked.
C6_ExplicitZeroPointsIsReady ==
    \A r \in Reqs :
        (/\ Received(r)
         /\ FlightsIn(r) = <<F1raw>> /\ HotelsIn(r) = <<H1raw>>
         /\ PointsSupplied(r) /\ data[r].user_points = Num(0))
        => /\ ~IsGateResponse(response[r])
           /\ InvokedSelector(r)

----------------------------------------------------------------------------
\* C7: in every success response total_cost is flight.price + 3 *
\* hotel.price_per_night of the selected flight and hotel, and points_used is
\* min(points, total_cost / 0.01), whatever the Formatter proposed.
StayNights == 3
PointsPerDollar == 100

C7_CostComputedLocally ==
    \A r \in Reqs :
        (Returned(r) /\ response[r].itinerary # EmptyDict /\ ~Dangling(r))
        => LET sel == frame[r].selection
               flight == CHOOSE x \in Range(FlightsIn(r)) : x.id.s = sel.flight_id
               hotel == CHOOSE x \in Range(HotelsIn(r)) : x.id.s = sel.hotel_id
               total == flight.price.n + hotel.price_per_night.n * StayNights
           IN /\ response[r].itinerary.total_cost = total
              /\ response[r].itinerary.points_used
                    = Min(data[r].user_points.n, total * PointsPerDollar)

----------------------------------------------------------------------------
\* C8: every request ends with a well-formed response, also when a catalog
\* entry is malformed or a collaborator call fails: no request's coroutine ends
\* with an exception.
C8_NoUnhandledFault ==
    \A r \in Reqs : pc[r] # "raised" /\ exc[r] = ""

----------------------------------------------------------------------------
\* C9: reconciling the Selector's output never raises: for a typed Selection,
\* bare JSON, fenced JSON, JSON lacking or mistyping a field, and prose, the
\* result is a Selection or None, the request did not end with an exception by
\* it, and None ends the request with the clarification response and no
\* further collaborator call.
C9_ReconcileNeverRaises ==
    \A r \in Reqs :
        Appended(r)
        => /\ frame[r].selection = None \/ IsSelection(frame[r].selection)
           /\ frame[r].selection = None
              => /\ Returned(r)
                 /\ IsClarifyResponse(response[r])
                 /\ Len(calls[r]) = 1
                 /\ exc[r] = ""

\* A JSON reply lacking hotel_id was reconciled to None and answered with the
\* clarification.
C9_Witness ==
    \E r \in Reqs :
        /\ Appended(r)
        /\ frame[r].selector_text = <<J_LACK>>
        /\ frame[r].selection = None
        /\ IsClarifyResponse(response[r])

----------------------------------------------------------------------------
\* C10: a response returned after the Formatter ran carries a non-empty
\* itinerary whose flight and hotel are the catalog entries the Selection
\* names; a response with an empty itinerary is a gate short-circuit or a
\* clarification.
C10_DoneCarriesItinerary ==
    \A r \in Reqs :
        /\ (Returned(r) /\ InvokedFormatter(r))
           => /\ response[r].itinerary # EmptyDict
              /\ response[r].itinerary.flight \in Range(flights_of(data[r]))
              /\ response[r].itinerary.hotel \in Range(hotels_of(data[r]))
              /\ response[r].itinerary.flight.id = frame[r].selection.flight_id
              /\ response[r].itinerary.hotel.id = frame[r].selection.hotel_id
        /\ (Returned(r) /\ response[r].itinerary = EmptyDict)
           => IsGateResponse(response[r]) \/ IsClarifyResponse(response[r])

----------------------------------------------------------------------------
\* C11: two concurrent first requests of one new user id never construct the
\* session twice: one session record and one history list exist per user id,
\* every request past the gate holds that one list, and the turn of every
\* request whose Selector call returned is in it (none is lost to a session
\* that was overwritten).
C11_SessionConstructedOnce ==
    /\ Len(heap) = Cardinality(DOMAIN sessions)
    /\ \A u1, u2 \in DOMAIN sessions :
            sessions[u1].history = sessions[u2].history => u1 = u2
    /\ \A r \in Reqs :
        "history" \in DOMAIN frame[r]
        => /\ Uid(r) \in DOMAIN sessions
           /\ frame[r].history = sessions[Uid(r)].history
           /\ Appended(r) => <<r, "user">> \in Range(TagsOf(HistoryOf(Uid(r))))

\* Two requests of a user id without a session were suspended at the Selector
\* call together, the first of them having found no session, and the history
\* of the user id holds the turns of both.
C11_Witness ==
    \E r1, r2 \in Reqs :
        /\ r1 < r2
        /\ Uid(r1) = Uid(r2)
        /\ Appended(r1) /\ Appended(r2)
        /\ frame[r1].selector_input.turns = <<>>
        /\ frame[r2].selector_input.turns = <<>>
        /\ Len(heap) = 1
        /\ Len(HistoryOf(Uid(r1))) = 4

----------------------------------------------------------------------------
\* C12: requests of different user ids do not contend.  The prompt of a
\* request is joined from turns of its own user id only, and a step of a
\* request leaves the session record and the history of every other user id
\* as they were; so a request of one user id can run from the gate to its
\* response while a request of another is suspended at its Selector call.
ReadsOwnSession ==
    \A r \in Reqs :
        "selector_input" \in DOMAIN frame[r]
        => \A i \in 1..Len(frame[r].selector_input.turns) :
                Uid(frame[r].selector_input.turns[i][1]) = Uid(r)

WritesOwnSession(r) ==
    \A u \in DOMAIN sessions :
        u # uid_of(data'[r])
        => /\ u \in DOMAIN sessions'
           /\ sessions'[u] = sessions[u]
           /\ heap'[sessions[u].history] = heap[sessions[u].history]

C12_UsersDoNotContend ==
    [][/\ ReadsOwnSession'
       /\ \A r \in Reqs : pc'[r] # pc[r] => WritesOwnSession(r)]_vars

\* A request of one user id is still suspended at its Selector call, and a
\* request of another user id that arrived after it has been answered by the
\* Formatter.
C12_Witness ==
    \E r1, r2 \in Reqs :
        /\ r1 < r2
        /\ pc[r1] = "await_selector"
        /\ Returned(r2) /\ InvokedFormatter(r2)
        /\ Uid(r1) # Uid(r2)
        /\ HistoryOf(Uid(r1)) = <<>>
        /\ Len(HistoryOf(Uid(r2))) = 2

----------------------------------------------------------------------------
\* C13: the response that asks for inputs names exactly the inputs that are
\* missing among flights, hotels and points (every missing one and no
\* supplied one), in the order flights, hotels, points, so that its message
\* is a function of which inputs are missing.
MissingInputs(r) ==
    (IF FlightsIn(r) = <<>> THEN << <<"flights list">> >> ELSE <<>>)
    \o (IF HotelsIn(r) = <<>> THEN << <<"hotels list">> >> ELSE <<>>)
    \o (IF ~PointsSupplied(r) THEN << <<"user_points">> >> ELSE <<>>)

C13_NamesExactlyTheMissing ==
    \A r \in Reqs :
        (Returned(r) /\ IsGateResponse(response[r]))
        => response[r].message
             = <<"I still need the following before I can build your itinerary: ">>
               \o Join(", ", MissingInputs(r))
               \o <<". Please provide them.">>

----------------------------------------------------------------------------
----------------------------------------------------------------------------
\* C15: no stage is retried and the stages run in order.  A request calls the
\* Selector at most once and the Formatter at most once, the Formatter only
\* after the Selector's output was reconciled to a Selection, and a failed
\* reconciliation ends the request with no further collaborator call.
C15_StagesOnceInOrder ==
    \A r \in Reqs :
        /\ Len(calls[r]) <= 2
        /\ \A i \in 1..Len(calls[r]) :
                calls[r][i].name = (IF i = 1 THEN "Selector" ELSE "Formatter")
        /\ InvokedFormatter(r)
           => Appended(r) /\ IsSelection(frame[r].selection)
        /\ (Appended(r) /\ ~IsSelection(frame[r].selection))
           => /\ calls[r] = <<frame[r].sel_agent>>
              /\ Returned(r)

\* One request was answered after its Selector call and then its Formatter
\* call; another ended after its Selector call alone, its output not
\* reconciled.
C15_Witness ==
    \E r1, r2 \in Reqs :
        /\ Appended(r1) /\ Appended(r2)
        /\ Returned(r1)
        /\ calls[r1] = <<frame[r1].sel_agent, frame[r1].fmt_agent>>
        /\ IsSelection(frame[r1].selection)
        /\ Returned(r2)
        /\ calls[r2] = <<frame[r2].sel_agent>>
        /\ frame[r2].selection = None

----------------------------------------------------------------------------
\* C16: the step in which a request's Selector call returns appends the
\* user's message and then the Selector's raw reply to the history of the
\* session, whether the reply is reconciled (the request goes on to the
\* Formatter) or not (the request returns the clarification): the history
\* grows by the same two entries on both exits.
C16_TurnAppendedOnBothExits ==
    [][\A r \in Reqs :
        (pc[r] = "await_selector" /\ pc'[r] \in {"returned", "await_formatter"})
        => LET h == frame[r].history IN
           /\ heap'[h] = heap[h]
                \o <<Turn(user_msg_of(data[r]), r, "user"),
                     Turn(frame'[r].selector_text, r, "selector")>>
           /\ frame'[r].selection = None <=> pc'[r] = "returned"]_vars

\* A request that ended with the clarification and a request that went on to
\* the Formatter have each left their message and the raw reply in the
\* history.
C16_Witness ==
    \E r1, r2 \in Reqs :
        /\ Appended(r1) /\ Appended(r2)
        /\ Returned(r1) /\ IsClarifyResponse(response[r1])
        /\ InvokedFormatter(r2)
        /\ \A r \in {r1, r2} :
            \E i \in 1..Len(HistoryOf(Uid(r))) - 1 :
                /\ HistoryOf(Uid(r))[i] = Turn(user_msg_of(data[r]), r, "user")
                /\ HistoryOf(Uid(r))[i + 1]
                     = Turn(frame[r].selector_text, r, "selector")

----------------------------------------------------------------------------
\* C17: the catalog is normalized before the gate, and all or nothing: a
\* request with a flight or hotel entry that lacks a required field or whose
\* price is not a number or is negative is answered with an explicit
\* catalog-entry error (neither the request for inputs nor the
\* clarification), also when another input is missing, and no collaborator
\* is called for it.
MalformedFlight(f) ==
    \/ {"id", "departure", "arrival", "price"} \ DOMAIN f # {}
    \/ ~IsNum(f.price)
    \/ f.price.n < 0

MalformedHotel(h) ==
    \/ {"id", "name", "price_per_night"} \ DOMAIN h # {}
    \/ ~IsNum(h.price_per_night)
    \/ h.price_per_night.n < 0

HasMalformedEntry(r) ==
    \/ \E i \in 1..Len(FlightsIn(r)) : MalformedFlight(FlightsIn(r)[i])
    \/ \E i \in 1..Len(HotelsIn(r)) : MalformedHotel(HotelsIn(r)[i])

C17_MalformedCatalogRejected ==
    \A r \in Reqs :
        (Received(r) /\ HasMalformedEntry(r))
        => /\ Returned(r)
           /\ response[r] # None
           /\ ~IsGateResponse(response[r])
           /\ ~IsClarifyResponse(response[r])
           /\ calls[r] = <<>>

----------------------------------------------------------------------------
\* C18: a session's history is append-only.  Across every step each session
\* keeps its history list and the list keeps its earlier value as a prefix
\* (nothing is removed, reordered or rewritten), and nothing is deduplicated:
\* the list holds two entries for every request whose Selector call returned,
\* also when two requests sent the same message.
NothingDeduplicated ==
    \A u \in DOMAIN sessions :
        Len(HistoryOf(u))
          = 2 * Cardinality({r \in Reqs : Appended(r) /\ Uid(r) = u})

C18_HistoryAppendOnly ==
    [][/\ \A u \in DOMAIN sessions :
            /\ u \in DOMAIN sessions'
            /\ sessions'[u].history = sessions[u].history
       /\ \A a \in 1..Len(heap) :
            /\ a <= Len(heap')
            /\ IsPrefix(heap[a], heap'[a])
       /\ NothingDeduplicated']_vars

\* Two requests of one user id sent the same message, and the history holds
\* the message twice, once for each, at the first and the third position.
C18_Witness ==
    \E r1, r2 \in Reqs :
        /\ r1 # r2
        /\ Appended(r1) /\ Appended(r2)
        /\ Uid(r1) = Uid(r2)
        /\ user_msg_of(data[r1]) = user_msg_of(data[r2])
        /\ Len(HistoryOf(Uid(r1))) = 4
        /\ HistoryOf(Uid(r1))[1].text = user_msg_of(data[r1])
        /\ HistoryOf(Uid(r1))[3].text = HistoryOf(Uid(r1))[1].text
        /\ HistoryOf(Uid(r1))[1].req # HistoryOf(Uid(r1))[3].req

----------------------------------------------------------------------------
\* C19: the clarification is a fixed text.  For any two requests whose
\* Selector output failed, by not reconciling to a Selection or by naming an
\* id that is not in the catalog, the two response bodies are identical, and
\* neither contains any of the Selector's raw text.
SelectorOutputFailed(r) ==
    /\ Appended(r)
    /\ frame[r].selection = None \/ Dangling(r)

C19_ClarifyIsFixedText ==
    \A r1, r2 \in Reqs :
        (/\ Returned(r1) /\ SelectorOutputFailed(r1)
         /\ Returned(r2) /\ SelectorOutputFailed(r2))
        => /\ response[r1] = response[r2]
           /\ Range(response[r1].message) \cap Range(frame[r1].selector_text) = {}

----------------------------------------------------------------------------
\* C20: a request that leaves at the gate with the request for inputs leaves
\* the session store as it was: the step creates no session and appends
\* nothing to any history.
C20_GateExitLeavesStore ==
    [][\A r \in Reqs :
        (response[r] = None /\ IsGateResponse(response'[r]))
        => /\ sessions' = sessions
           /\ heap' = heap]_vars

\* A request left at the gate while the store held the session of another
\* user id with one turn: no session was made for the request's user id, and
\* the one session and its one turn are all the store holds.
C20_Witness ==
    \E r1, r2 \in Reqs :
        /\ Appended(r1)
        /\ Returned(r2) /\ IsGateResponse(response[r2])
        /\ Uid(r2) \notin DOMAIN sessions
        /\ DOMAIN sessions = {Uid(r1)}
        /\ Len(heap) = 1
        /\ Len(HistoryOf(Uid(r1))) = 2

====
